---- MODULE Spec2Model ----
(***************************************************************************)
(* Glyph outline caching and text-to-path conversion of pathfinder's text  *)
(* crate (text/src/lib.rs): FontContext, FontInfo, OutlinePathBuilder.     *)
(*                                                                         *)
(* An f32 is modelled in binary fixed point: the integer x stands for the   *)
(* number x / Unit. Units-per-em values, sizes, offsets and transform       *)
(* entries of the model are such that every product and quotient computed   *)
(* is a multiple of 1 / Unit, so no operation of the model rounds and       *)
(* scale(units_per_em) followed by scale(1 / units_per_em) is an identity   *)
(* that is computed, not assumed.                                           *)
(***************************************************************************)
EXTENDS Integers, Sequences, FiniteSets, TLC

(* ------------------------------ bounds --------------------------------- *)
\* most paths already in the scene a call is handed
MaxScene == 1
\* most glyphs in a layout handed to push_layout
MaxLayout == 3
\* most calls made on one OutlinePathBuilder: its construction and the
\* events delivered to it
MaxCalls == 5

(* ------------------------- f32 in fixed point ------------------------- *)
\* the integer that stands for 1.0
Unit == 2^6

\* the f32 of an integer literal
F32(n) == n * Unit
\* a / b, for a non-zero divisor
FDiv(a, b) == (a * Unit) \div b
\* -a
FNeg(a) == 0 - a

(* ------------------------ Vector2F, Transform2F ------------------------ *)
\* the vector of two integer literals
VInt(x, y) == <<F32(x), F32(y)>>

\* Transform2F: a 2x2 matrix and a translation vector
Identity ==
    [m11 |-> F32(1), m12 |-> F32(0), m21 |-> F32(0), m22 |-> F32(1),
     tx |-> F32(0), ty |-> F32(0)]

\* Transform2F::from_scale(vec2f(sx, sy))
FromScale2(sx, sy) ==
    [m11 |-> sx, m12 |-> F32(0), m21 |-> F32(0), m22 |-> sy,
     tx |-> F32(0), ty |-> F32(0)]

\* Transform2F::from_scale(s) with a scalar
FromScale(s) == FromScale2(s, s)

FromTranslation(v) ==
    [m11 |-> F32(1), m12 |-> F32(0), m21 |-> F32(0), m22 |-> F32(1),
     tx |-> v[1], ty |-> v[2]]

\* a * b + c * d + e
Lin(a, b, c, d, e) == ((a * b + c * d) \div Unit) + e

\* Transform2F * Vector2F
Apply(t, p) ==
    <<Lin(t.m11, p[1], t.m12, p[2], t.tx), Lin(t.m21, p[1], t.m22, p[2], t.ty)>>

\* Transform2F * Transform2F: (a * b) applies b first, then a
Mul(a, b) ==
    [m11 |-> Lin(a.m11, b.m11, a.m12, b.m21, F32(0)),
     m12 |-> Lin(a.m11, b.m12, a.m12, b.m22, F32(0)),
     m21 |-> Lin(a.m21, b.m11, a.m22, b.m21, F32(0)),
     m22 |-> Lin(a.m21, b.m12, a.m22, b.m22, F32(0)),
     tx |-> Lin(a.m11, b.tx, a.m12, b.ty, a.tx),
     ty |-> Lin(a.m21, b.tx, a.m22, b.ty, a.ty)]

\* t.translate(v): the translation composed on the point side of t, as the
\* design note gives it (scale(fontScale, -fontScale) o translate(offset))
Translate(t, v) == Mul(t, FromTranslation(v))

(* --------------------------- Contour, Outline -------------------------- *)
\* a contour is its points, each flagged as an endpoint or as the first or
\* second control point of a curve, and its closed flag
\* Contour::new()
NewContour == [points |-> <<>>, closed |-> FALSE]

\* Contour::is_empty: the contour holds no point. move_to pushes the start
\* point onto whatever contour flush_current_contour left, so a contour that
\* holds a start point must count as non-empty for move_to to begin a new
\* contour rather than extend the old one
ContourIsEmpty(c) == c.points = <<>>

PushPoint(c, p, flag) == [c EXCEPT !.points = Append(@, [p |-> p, flag |-> flag])]

\* Contour::push_endpoint
PushEndpoint(c, to) == PushPoint(c, to, "endpoint")

\* Contour::push_quadratic
PushQuadratic(c, ctrl, to) ==
    PushPoint(PushPoint(c, ctrl, "control0"), to, "endpoint")

\* Contour::push_cubic
PushCubic(c, ctrl0, ctrl1, to) ==
    PushPoint(PushPoint(PushPoint(c, ctrl0, "control0"),
                        ctrl1, "control1"), to, "endpoint")

\* Contour::close
CloseContour(c) == [c EXCEPT !.closed = TRUE]

\* Outline::new(): an outline is the sequence of its contours
NewOutline == <<>>

\* Outline::transform: every point of every contour goes through t
TransformContour(c, t) ==
    [c EXCEPT !.points =
        [i \in 1..Len(c.points) |-> [p |-> Apply(t, c.points[i].p),
                                     flag |-> c.points[i].flag]]]

TransformOutline(o, t) ==
    IF o = <<>> THEN <<>>
    ELSE [i \in 1..Len(o) |-> TransformContour(o[i], t)]

\* OutlineStrokeToFill::new(&outline, style); offset(); into_outline():
\* the stroke footprint, kept symbolic
StrokeToFill(o, style) == <<[stroke |-> style, of |-> o]>>

(* -------------------------- OutlinePathBuilder ------------------------- *)
\* OutlinePathBuilder::new
NewBuilder(transform) ==
    [outline |-> NewOutline, current_contour |-> NewContour,
     transform |-> transform]

flush_current_contour(b) ==
    IF ~ContourIsEmpty(b.current_contour)
    THEN [b EXCEPT !.outline = Append(@, b.current_contour),
                   !.current_contour = NewContour]
    ELSE b

\* a slip: build hands the outline out without the flush
build_unflushed(b) == b.outline

build(b) == flush_current_contour(b).outline

move_to(b, to) ==
    LET f == flush_current_contour(b)
    IN  [f EXCEPT !.current_contour = PushEndpoint(@, Apply(f.transform, to))]

line_to(b, to) ==
    [b EXCEPT !.current_contour = PushEndpoint(@, Apply(b.transform, to))]

quadratic_curve_to(b, ctrl, to) ==
    [b EXCEPT !.current_contour =
        PushQuadratic(@, Apply(b.transform, ctrl), Apply(b.transform, to))]

\* a slip: the second control point is stored as it came
cubic_curve_to_raw_ctrl(b, ctrl0, ctrl1, to) ==
    [b EXCEPT !.current_contour =
        PushCubic(@, Apply(b.transform, ctrl0), ctrl1,
                  Apply(b.transform, to))]

cubic_curve_to(b, ctrl0, ctrl1, to) ==
    [b EXCEPT !.current_contour =
        PushCubic(@, Apply(b.transform, ctrl0), Apply(b.transform, ctrl1),
                  Apply(b.transform, to))]

\* a slip: closing a contour also completes it
close_and_flush(b) ==
    flush_current_contour([b EXCEPT !.current_contour = CloseContour(@)])

close(b) == [b EXCEPT !.current_contour = CloseContour(@)]

\* one OutlineSink event delivered to the builder
SinkEvent(b, e) ==
    CASE e.op = "move_to" -> move_to(b, e.to)
      [] e.op = "line_to" -> line_to(b, e.to)
      [] e.op = "quadratic_curve_to" -> quadratic_curve_to(b, e.ctrl, e.to)
      [] e.op = "cubic_curve_to" -> cubic_curve_to(b, e.ctrl0, e.ctrl1, e.to)
      [] e.op = "close" -> close(b)

RECURSIVE Feed(_, _)
\* the font's outline source drives the sink with its events, in order
Feed(b, events) ==
    IF events = <<>> THEN b
    ELSE Feed(SinkEvent(b, Head(events)), Tail(events))

(* ------------------------- the font capability ------------------------- *)
\* Option<T>: None, or Some(x) holding x
None == <<>>
Some(x) == <<x>>
Unwrap(o) == o[1]

\* the fonts a caller holds: F1 and F2 are two fonts that report the same
\* PostScript name, F3 has a name of its own, F4 reports none
Fonts == {"F1", "F2", "F3", "F4"}

\* Loader::postscript_name
postscript_name(font) ==
    CASE font = "F1" -> Some("A")
      [] font = "F2" -> Some("A")
      [] font = "F3" -> Some("B")
      [] font = "F4" -> None

\* Loader::metrics
FontMetrics(font) ==
    [units_per_em |-> CASE font = "F1" -> 2
                        [] font = "F2" -> 4
                        [] font = "F3" -> 2
                        [] font = "F4" -> 4]

\* the glyph ids callers ask of each font; glyph 7 cannot be loaded from any
\* font
GlyphIds == {1, 2, 7}

GlyphsAsked(font) ==
    CASE font = "F1" -> {1, 2, 7}
      [] font = "F2" -> {1}
      [] font = "F3" -> {1, 7}
      [] font = "F4" -> {1, 7}

GlyphLoads(font, glyph_id) == glyph_id # 7

\* the design of a glyph differs per font, and hinting moves its points
Design(font, hinting) ==
    (CASE font = "F1" -> 1 [] font = "F2" -> 2 [] font = "F3" -> 3
       [] font = "F4" -> 4) + (IF hinting = "None" THEN 0 ELSE 4)

\* the events Loader::outline feeds to the sink for a glyph that loads
GlyphEvents(font, glyph_id, hinting) ==
    LET n == Design(font, hinting)
    IN  IF glyph_id = 1
        THEN << [op |-> "move_to", to |-> VInt(0, 1)],
                [op |-> "quadratic_curve_to", ctrl |-> VInt(n, n),
                 to |-> VInt(3, 2)],
                [op |-> "close"] >>
        ELSE << [op |-> "move_to", to |-> VInt(1, 1)],
                [op |-> "line_to", to |-> VInt(2, n)],
                [op |-> "close"],
                [op |-> "move_to", to |-> VInt(0, 0)],
                [op |-> "cubic_curve_to", ctrl0 |-> VInt(1, 0),
                 ctrl1 |-> VInt(1, n), to |-> VInt(0, n)] >>

\* font.outline(glyph_id, hinting_options, &mut outline_builder)
FontOutline(font, glyph_id, hinting, builder) ==
    IF GlyphLoads(font, glyph_id)
    THEN [ok |-> TRUE,
          builder |-> Feed(builder, GlyphEvents(font, glyph_id, hinting))]
    ELSE [ok |-> FALSE, builder |-> builder]

\* the font's own outline of a glyph, untransformed
RawOutline(font, glyph_id, hinting) ==
    build(Feed(NewBuilder(Identity), GlyphEvents(font, glyph_id, hinting)))

(* ------------------------------ FontInfo ------------------------------- *)
\* HashMap::new() and HashMap::insert, maps being functions
EmptyMap == <<>>
MapInsert(m, k, v) == [x \in DOMAIN m \cup {k} |-> IF x = k THEN v ELSE m[x]]

\* FontInfo::new
FontInfoNew(font) ==
    [font |-> font, metrics |-> FontMetrics(font), outline_cache |-> EmptyMap]

(* --------------------------- FontRenderOptions ------------------------- *)
\* FontRenderOptions::default()
DefaultRenderOptions ==
    [transform |-> Identity, render_mode |-> <<"Fill">>,
     hinting_options |-> "None", clip_path |-> None,
     blend_mode |-> "SrcOver", paint_id |-> 0]

\* a quarter turn followed by a translation by (3, 1)
Turned ==
    [m11 |-> F32(0), m12 |-> F32(-1), m21 |-> F32(1), m22 |-> F32(0),
     tx |-> F32(3), ty |-> F32(1)]

\* the render options callers pass
Unhinted == DefaultRenderOptions
UnhintedTurned ==
    [DefaultRenderOptions EXCEPT !.transform = Turned, !.clip_path = Some(1),
                                 !.blend_mode = "Multiply", !.paint_id = 1]
HintedTurned ==
    [DefaultRenderOptions EXCEPT !.hinting_options = "Full",
                                 !.transform = Turned]
Stroked == [DefaultRenderOptions EXCEPT !.render_mode = <<"Stroke", "S1">>]

\* how callers place and style a glyph: its offset, the font size and the
\* render options
Styles ==
    { [offset |-> VInt(0, 0), size |-> F32(2), render_options |-> Unhinted],
      [offset |-> VInt(1, 2), size |-> F32(4),
       render_options |-> UnhintedTurned],
      [offset |-> VInt(1, 2), size |-> F32(2),
       render_options |-> HintedTurned],
      [offset |-> VInt(0, 0), size |-> F32(4), render_options |-> Stroked] }

(* ----------------------- FontContext::push_glyph ----------------------- *)
\* a slip: the font of a call without a key is filed under the empty name
ResolveFontInfoKeyless(fi, font, font_key) ==
    IF font_key = None
    THEN MapInsert(fi, "", FontInfoNew(font))
    ELSE IF Unwrap(font_key) \notin DOMAIN fi
    THEN MapInsert(fi, Unwrap(font_key), FontInfoNew(font))
    ELSE fi

\* a slip: the contains_key test is left out, every keyed call inserts anew
ResolveFontInfoReplace(fi, font, font_key) ==
    IF font_key # None
    THEN MapInsert(fi, Unwrap(font_key), FontInfoNew(font))
    ELSE fi

\* a slip: an entry made for another font is made anew for the call's font
ResolveFontInfoPerFont(fi, font, font_key) ==
    IF /\ font_key # None
       /\ \/ Unwrap(font_key) \notin DOMAIN fi
          \/ fi[Unwrap(font_key)].font # font
    THEN MapInsert(fi, Unwrap(font_key), FontInfoNew(font))
    ELSE fi

\* "Insert the font into the cache if needed": the mapping after the match
ResolveFontInfo(fi, font, font_key) ==
    IF font_key # None /\ Unwrap(font_key) \notin DOMAIN fi
    THEN MapInsert(fi, Unwrap(font_key), FontInfoNew(font))
    ELSE fi

\* the FontInfo the call works on: the mapping's entry (FontInfoRefMut::Ref)
\* or a fresh one owned by the call (FontInfoRefMut::Owned)
LocalFontInfo(fi, font, font_key) ==
    IF font_key # None THEN fi[Unwrap(font_key)] ELSE FontInfoNew(font)

\* a slip: hinted outlines are cached too
CanCacheOutlineAlways(render_options) == TRUE

CanCacheOutline(render_options) == render_options.hinting_options = "None"

\* a slip: the cache is never consulted
LookupCachedOutlineNever(info, glyph_id, can_cache_outline) == None

\* "See if we have a cached outline."
LookupCachedOutline(info, glyph_id, can_cache_outline) ==
    IF can_cache_outline /\ glyph_id \in DOMAIN info.outline_cache
    THEN Some(info.outline_cache[glyph_id])
    ELSE None

FontScale(font_size, metrics) == FDiv(font_size, F32(metrics.units_per_em))

\* a slip: the Y factor of the scale is not negated
RenderTransformNoFlip(render_options, metrics, glyph_offset, font_size) ==
    LET font_scale == FontScale(font_size, metrics)
    IN  Mul(render_options.transform,
            Translate(FromScale2(font_scale, font_scale), glyph_offset))

RenderTransform(render_options, metrics, glyph_offset, font_size) ==
    LET font_scale == FontScale(font_size, metrics)
    IN  Mul(render_options.transform,
            Translate(FromScale2(font_scale, FNeg(font_scale)), glyph_offset))

\* render_transform * Transform2F::from_scale(1.0 / units_per_em)
FromCacheTransform(render_transform, metrics) ==
    Mul(render_transform, FromScale(FDiv(F32(1), F32(metrics.units_per_em))))

\* a slip: the cached outline is taken for a font-unit outline
HitOutlineUnnormalised(cached_outline, render_transform, metrics) ==
    TransformOutline(cached_outline, render_transform)

\* the Some(cached_outline) arm
HitOutline(cached_outline, render_transform, metrics) ==
    TransformOutline(cached_outline,
                     FromCacheTransform(render_transform, metrics))

\* a slip: the builder always gets the render transform
BuilderTransformRender(can_cache_outline, metrics, render_transform) ==
    render_transform

\* the transform handed to the OutlinePathBuilder in the None arm
BuilderTransform(can_cache_outline, metrics, render_transform) ==
    IF can_cache_outline
    THEN FromScale(F32(metrics.units_per_em))
    ELSE render_transform

\* a slip: the error of font.outline is dropped and what was built is used
MissPathSwallow(info, font, glyph_id, render_options, render_transform) ==
    LET can_cache_outline == CanCacheOutline(render_options)
        transform == BuilderTransform(can_cache_outline, info.metrics,
                                      render_transform)
        extracted == FontOutline(font, glyph_id,
                                 render_options.hinting_options,
                                 NewBuilder(transform))
        built == build(extracted.builder)
    IN  IF can_cache_outline
        THEN [ok |-> TRUE,
              info |-> [info EXCEPT !.outline_cache =
                                        MapInsert(@, glyph_id, built)],
              outline |-> TransformOutline(built,
                              FromCacheTransform(render_transform,
                                                 info.metrics))]
        ELSE [ok |-> TRUE, info |-> info, outline |-> built]

\* a slip: the cache slot is filled before the result of font.outline is
\* looked at
MissPathInsertFirst(info, font, glyph_id, render_options, render_transform) ==
    LET can_cache_outline == CanCacheOutline(render_options)
        transform == BuilderTransform(can_cache_outline, info.metrics,
                                      render_transform)
        extracted == FontOutline(font, glyph_id,
                                 render_options.hinting_options,
                                 NewBuilder(transform))
        built == build(extracted.builder)
        info1 == IF can_cache_outline
                 THEN [info EXCEPT !.outline_cache =
                                       MapInsert(@, glyph_id, built)]
                 ELSE info
    IN  IF ~extracted.ok
        THEN [ok |-> FALSE, info |-> info1, outline |-> NewOutline]
        ELSE IF can_cache_outline
        THEN [ok |-> TRUE, info |-> info1,
              outline |-> TransformOutline(built,
                              FromCacheTransform(render_transform,
                                                 info.metrics))]
        ELSE [ok |-> TRUE, info |-> info1, outline |-> built]

\* the None arm: extract, build, insert a clone, transform the local copy;
\* ok = FALSE is the early return of the ? operator
MissPath(info, font, glyph_id, render_options, render_transform) ==
    LET can_cache_outline == CanCacheOutline(render_options)
        transform == BuilderTransform(can_cache_outline, info.metrics,
                                      render_transform)
        extracted == FontOutline(font, glyph_id,
                                 render_options.hinting_options,
                                 NewBuilder(transform))
        built == build(extracted.builder)
    IN  IF ~extracted.ok
        THEN [ok |-> FALSE, info |-> info, outline |-> NewOutline]
        ELSE IF can_cache_outline
        THEN [ok |-> TRUE,
              info |-> [info EXCEPT !.outline_cache =
                                        MapInsert(@, glyph_id, built)],
              outline |-> TransformOutline(built,
                              FromCacheTransform(render_transform,
                                                 info.metrics))]
        ELSE [ok |-> TRUE, info |-> info, outline |-> built]

\* a slip: the converted outline is not assigned back
StrokeIfNeededDropped(outline, render_options) == outline

\* if let TextRenderMode::Stroke(stroke_style) = render_options.render_mode
StrokeIfNeeded(outline, render_options) ==
    IF render_options.render_mode[1] = "Stroke"
    THEN StrokeToFill(outline, render_options.render_mode[2])
    ELSE outline

\* a slip: set_blend_mode is left out, the path keeps DrawPath::new's mode
MakeDrawPathDefaultBlend(outline, render_options) ==
    [outline |-> outline, paint |-> render_options.paint_id,
     clip_path |-> render_options.clip_path,
     blend_mode |-> "SrcOver"]

\* DrawPath::new, set_clip_path, set_blend_mode
MakeDrawPath(outline, render_options) ==
    [outline |-> outline, paint |-> render_options.paint_id,
     clip_path |-> render_options.clip_path,
     blend_mode |-> render_options.blend_mode]

\* what the mapping holds once the call's &mut FontInfo is released: a Ref
\* wrote through to the entry, an Owned value is dropped
ReleaseFontInfo(fi, font_key, info) ==
    IF font_key # None THEN [fi EXCEPT ![Unwrap(font_key)] = info] ELSE fi

\* push_glyph as a function of the context and the scene: the mapping and
\* the scene after the call, the Result, the calls made to font.outline
\* (font, glyph id, hinting), and the FontInfo the call worked on as it is
\* when the call returns
PushGlyph(fi, sc, font, font_key, glyph_id, glyph_offset, font_size, render_options) ==
    LET fi1 == ResolveFontInfo(fi, font, font_key)
        info == LocalFontInfo(fi1, font, font_key)
        can_cache_outline == CanCacheOutline(render_options)
        cached_outline == LookupCachedOutline(info, glyph_id,
                                              can_cache_outline)
        metrics == info.metrics
        render_transform == RenderTransform(render_options, metrics,
                                            glyph_offset, font_size)
        miss == MissPath(info, font, glyph_id, render_options,
                         render_transform)
        call == <<font, glyph_id, render_options.hinting_options>>
    IN  IF cached_outline # None
        THEN [font_info |-> fi1,
              scene |-> Append(sc, MakeDrawPath(
                            StrokeIfNeeded(
                                HitOutline(Unwrap(cached_outline),
                                           render_transform, metrics),
                                render_options), render_options)),
              result |-> "Ok", outline_calls |-> <<>>, info |-> info]
        ELSE IF ~miss.ok
        THEN [font_info |-> ReleaseFontInfo(fi1, font_key, miss.info),
              scene |-> sc,
              result |-> "Err", outline_calls |-> <<call>>,
              info |-> miss.info]
        ELSE [font_info |-> ReleaseFontInfo(fi1, font_key, miss.info),
              scene |-> Append(sc, MakeDrawPath(
                            StrokeIfNeeded(miss.outline, render_options),
                            render_options)),
              result |-> "Ok", outline_calls |-> <<call>>,
              info |-> miss.info]

\* a slip: only an entry that holds an outline counts as a cached font
get_cached_font_with_outline(fi, postscript_name_) ==
    IF /\ postscript_name_ \in DOMAIN fi
       /\ fi[postscript_name_].outline_cache # EmptyMap
    THEN Some(fi[postscript_name_].font)
    ELSE None

\* FontContext::get_cached_font
get_cached_font(fi, postscript_name_) ==
    IF postscript_name_ \in DOMAIN fi
    THEN Some(fi[postscript_name_].font)
    ELSE None

(* ---------------------- FontContext::push_layout ----------------------- *)
\* a layout is a sequence of glyphs [font, glyph_id, offset]
\* the one-slot memo: kept when the glyph's font is the memo's font
\* (Arc::ptr_eq), recomputed from the glyph's font otherwise
\* a slip: the memo is kept when the glyph's font has the memo's key
NextCachedFontKeyByName(cached_font_key, glyph) ==
    IF /\ cached_font_key # None
       /\ Unwrap(cached_font_key).key = postscript_name(glyph.font)
    THEN cached_font_key
    ELSE Some([font |-> glyph.font, key |-> postscript_name(glyph.font)])

NextCachedFontKey(cached_font_key, glyph) ==
    IF cached_font_key # None /\ Unwrap(cached_font_key).font = glyph.font
    THEN cached_font_key
    ELSE Some([font |-> glyph.font, key |-> postscript_name(glyph.font)])

RECURSIVE LayoutLoop(_, _, _, _, _, _, _, _)
\* the for loop from glyph i on; processed counts the push_glyph calls made
LayoutLoop(fi, sc, layout, i, cached_font_key, size, render_options, calls) ==
    IF i > Len(layout)
    THEN [font_info |-> fi, scene |-> sc, result |-> "Ok",
          outline_calls |-> calls, processed |-> i - 1]
    ELSE LET glyph == layout[i]
             memo == NextCachedFontKey(cached_font_key, glyph)
             r == PushGlyph(fi, sc, Unwrap(memo).font, Unwrap(memo).key,
                            glyph.glyph_id, glyph.offset, size,
                            render_options)
         IN  IF r.result = "Err"
             THEN [font_info |-> r.font_info, scene |-> r.scene,
                   result |-> "Err",
                   outline_calls |-> calls \o r.outline_calls,
                   processed |-> i]
             ELSE LayoutLoop(r.font_info, r.scene, layout, i + 1, memo, size,
                             render_options, calls \o r.outline_calls)

\* a slip: a failing layout takes its paths back out of the scene
PushLayoutRollback(fi, sc, layout, size, render_options) ==
    LET r == LayoutLoop(fi, sc, layout, 1, None, size, render_options, <<>>)
    IN  IF r.result = "Err" THEN [r EXCEPT !.scene = sc] ELSE r

PushLayout(fi, sc, layout, size, render_options) ==
    LayoutLoop(fi, sc, layout, 1, None, size, render_options, <<>>)

(* --------------------------- the state machine -------------------------- *)
\* font_info: the FontContext's mapping from font key to FontInfo
\* scene:     the DrawPaths of the caller's Scene, in the order pushed
\* last:      the call just made: its arguments, the scene it was handed, its
\*            Result, the calls it made to font.outline and the FontInfo it
\*            worked on; idle while the caller prepares the next call
VARIABLES font_info, scene, last

\* an OutlinePathBuilder in the hands of an outline source, outside any
\* push_glyph call:
\* builder: the OutlinePathBuilder, as constructed and then driven
\* events:  the OutlineSink events delivered to it so far, in order
\* built:   None until build() consumed the builder, then Some(outline)
VARIABLES builder, events, built

\* two push_glyph calls at work on the one FontContext and Scene with nothing
\* to keep them apart:
\* race: None, or the mapping the two calls found and, per call, its
\*       arguments, where it stands in push_glyph and its local variables
VARIABLES race

\* the demo application (demo/common/src/renderer.rs):
\* camera:            self.camera
\* viewport_size:     the size of self.window.viewport(View::Stereo(0))
\* scene_framebuffer: self.scene_framebuffer, an Option
\* dest:              self.renderer.options().dest
\* created:           the framebuffers created so far
\* frame:             where the frame loop stands: the method called last,
\*                    what prepare_frame_rendering returned and the mode it
\*                    saw, whether the camera was changed since, and whether
\*                    an unwrap() met None
VARIABLES camera, viewport_size, scene_framebuffer, dest, created, frame

text_vars == <<font_info, scene, last>>
builder_vars == <<builder, events, built>>
race_vars == <<race>>
demo_vars == <<camera, viewport_size, scene_framebuffer, dest, created, frame>>
vars == <<font_info, scene, last, builder, events, built, race, camera, viewport_size, scene_framebuffer, dest, created, frame>>

\* ---- the demo application's values (demo/common/src/renderer.rs) ----
\* the cameras: Camera::TwoD, and Camera::ThreeD with its eye_transforms,
\* of which only the length is looked at (renderer.rs 147)
TwoDCamera == [kind |-> "TwoD", eye_transforms |-> 0]
MonoCamera == [kind |-> "ThreeD", eye_transforms |-> 1]
StereoCamera == [kind |-> "ThreeD", eye_transforms |-> 2]
Cameras == {TwoDCamera, MonoCamera, StereoCamera}

\* Camera::mode(): a ThreeD camera with more than one eye transform is the
\* VR camera, the one composite_scene composites for
CameraMode(camera_) == IF camera_.kind = "TwoD" THEN "TwoD" ELSE IF camera_.eye_transforms > 1 THEN "VR" ELSE "ThreeD"

\* the sizes window.viewport(View::Stereo(0)) can have
SmallViewport == "small"
LargeViewport == "large"
ViewportSizes == {SmallViewport, LargeViewport}

\* DestFramebuffer::Default { .. } and DestFramebuffer::Other(framebuffer)
DefaultDest == [kind |-> "Default"]
OtherDest(framebuffer) == [kind |-> "Other", framebuffer |-> framebuffer]

\* device.create_framebuffer(device.create_texture(RGBA8, size)): a new
\* framebuffer, told from the earlier ones by its number, whose texture
\* has the size asked for
create_framebuffer(created_, size) == [id |-> created_ + 1, texture_size |-> size]

\* the frame loop before the first frame
NoFrame == [op |-> "new", scene_count |-> 0, mode |-> "TwoD", camera_kept |-> TRUE, render_scene_index |-> 0, unwrapped_none |-> FALSE]

Idle == [op |-> "idle"]

\* a path some other part of the caller pushed into the scene
ForeignPath ==
    [outline |-> <<>>, paint |-> 9, clip_path |-> None,
     blend_mode |-> "SrcOver"]

\* the scenes callers hand over: push_glyph only appends to the scene, so
\* what the scene already holds is taken to be foreign paths
StartScenes == { [i \in 1..n |-> ForeignPath] : n \in 0..MaxScene }

\* FontContext::new() and an empty Scene
Init ==
    /\ font_info = EmptyMap
    /\ scene = <<>>
    /\ last = Idle
    /\ builder = None
    /\ events = <<>>
    /\ built = None
    /\ race = None
    /\ camera = TwoDCamera
    /\ viewport_size = SmallViewport
    /\ scene_framebuffer = None
    /\ dest = DefaultDest
    /\ created = 0
    /\ frame = NoFrame

\* a call of push_glyph; the key is the font's PostScript name, as
\* push_layout passes it
PushGlyphCall ==
    /\ last = Idle
    /\ \E font \in Fonts, style \in Styles :
        \E glyph_id \in GlyphsAsked(font) :
          LET font_key == postscript_name(font)
              r == PushGlyph(font_info, scene, font, font_key, glyph_id,
                             style.offset, style.size, style.render_options)
          IN  /\ font_info' = r.font_info
              /\ scene' = r.scene
              /\ last' = [op |-> "push_glyph", scene_before |-> scene,
                          font |-> font,
                          font_key |-> font_key, glyph_id |-> glyph_id,
                          glyph_offset |-> style.offset,
                          font_size |-> style.size,
                          render_options |-> style.render_options,
                          result |-> r.result,
                          outline_calls |-> r.outline_calls,
                          info |-> r.info]
    /\ UNCHANGED builder_vars
    /\ UNCHANGED race_vars
    /\ UNCHANGED demo_vars

\* the glyphs of the layouts callers pass: a font and a glyph id
LayoutGlyphs == {<<"F1", 1>>, <<"F1", 7>>, <<"F2", 1>>, <<"F4", 1>>}

\* the layouts of n glyphs, the pen advancing by one unit per glyph
LayoutsOfLen(n) ==
    { [i \in 1..n |-> [font |-> c[i][1], glyph_id |-> c[i][2],
                       offset |-> VInt(i - 1, 0)]] :
      c \in [1..n -> LayoutGlyphs] }

Layouts == UNION { LayoutsOfLen(n) : n \in 1..MaxLayout }

\* the text styles and render options of the layouts callers pass
LayoutStyles ==
    { [size |-> F32(2), render_options |-> Unhinted],
      [size |-> F32(4), render_options |-> HintedTurned] }

\* a call of push_layout
PushLayoutCall ==
    /\ last = Idle
    /\ \E layout \in Layouts, style \in LayoutStyles :
          LET r == PushLayout(font_info, scene, layout, style.size,
                              style.render_options)
          IN  /\ font_info' = r.font_info
              /\ scene' = r.scene
              /\ last' = [op |-> "push_layout", scene_before |-> scene,
                          layout |-> layout,
                          font_size |-> style.size,
                          render_options |-> style.render_options,
                          result |-> r.result,
                          outline_calls |-> r.outline_calls,
                          processed |-> r.processed]
    /\ UNCHANGED builder_vars
    /\ UNCHANGED race_vars
    /\ UNCHANGED demo_vars

\* the caller has looked at the outcome and prepares the scene of its next
\* call; the FontContext lives on
PrepareScene ==
    /\ last # Idle
    /\ scene' \in StartScenes
    /\ last' = Idle
    /\ UNCHANGED font_info
    /\ UNCHANGED builder_vars
    /\ UNCHANGED race_vars
    /\ UNCHANGED demo_vars

\* the names callers look up: the two PostScript names of the fonts and a
\* name no font has
NamesAsked == {"A", "B", "Z"}

\* a call of get_cached_font(&self, postscript_name): it reads the mapping
GetCachedFontCall ==
    /\ last = Idle
    /\ \E postscript_name_ \in NamesAsked :
          last' = [op |-> "get_cached_font",
                   postscript_name |-> postscript_name_,
                   result |-> get_cached_font(font_info, postscript_name_)]
    /\ UNCHANGED <<font_info, scene>>
    /\ UNCHANGED builder_vars
    /\ UNCHANGED race_vars
    /\ UNCHANGED demo_vars

Next == PushGlyphCall \/ PushLayoutCall \/ GetCachedFontCall \/ PrepareScene

Spec == Init /\ [][Next]_vars

(* -------------------- an OutlinePathBuilder on its own ------------------ *)
\* the transforms builders are constructed with: neither is its own square,
\* so a coordinate transformed twice differs from one transformed once
BuilderTransforms == {FromScale(F32(2)), Turned}

\* the points outline sources hand to the sink
BuilderPoints == {VInt(1, 0), VInt(0, 2)}

\* OutlinePathBuilder::new(transform); the log starts with the construction
New ==
    /\ builder = None
    /\ built = None
    /\ \E transform \in BuilderTransforms :
          /\ builder' = Some(NewBuilder(transform))
          /\ events' = <<[op |-> "new", transform |-> transform]>>
    /\ UNCHANGED built
    /\ UNCHANGED text_vars
    /\ UNCHANGED race_vars
    /\ UNCHANGED demo_vars

\* the builder exists and the outline source may deliver one more event
CanDeliver == builder # None /\ Len(events) < MaxCalls

\* the event e reaches the sink
Deliver(e) ==
    /\ builder' = Some(SinkEvent(Unwrap(builder), e))
    /\ events' = Append(events, e)
    /\ UNCHANGED built
    /\ UNCHANGED text_vars
    /\ UNCHANGED race_vars
    /\ UNCHANGED demo_vars

MoveTo ==
    /\ CanDeliver
    /\ \E to \in BuilderPoints : Deliver([op |-> "move_to", to |-> to])

LineTo ==
    /\ CanDeliver
    /\ \E to \in BuilderPoints : Deliver([op |-> "line_to", to |-> to])

QuadraticCurveTo ==
    /\ CanDeliver
    /\ \E ctrl \in BuilderPoints, to \in BuilderPoints :
          /\ ctrl # to
          /\ Deliver([op |-> "quadratic_curve_to", ctrl |-> ctrl, to |-> to])

CubicCurveTo ==
    /\ CanDeliver
    /\ \E ctrl0 \in BuilderPoints, ctrl1 \in BuilderPoints :
          /\ ctrl0 # ctrl1
          /\ Deliver([op |-> "cubic_curve_to", ctrl0 |-> ctrl0,
                      ctrl1 |-> ctrl1, to |-> ctrl0])

Close ==
    /\ CanDeliver
    /\ Deliver([op |-> "close"])

\* build(mut self): the builder is consumed, the outline is handed out
Build ==
    /\ builder # None
    /\ built' = Some(build(Unwrap(builder)))
    /\ builder' = None
    /\ UNCHANGED events
    /\ UNCHANGED text_vars
    /\ UNCHANGED race_vars
    /\ UNCHANGED demo_vars

NextBuilder ==
    New \/ MoveTo \/ LineTo \/ QuadraticCurveTo \/ CubicCurveTo \/ Close \/ Build

SpecBuilder == Init /\ [][NextBuilder]_vars

(* ------------- two push_glyph calls without mutual exclusion ------------ *)
\* the fonts, glyphs and styles of the racing calls: keyed fonts of one key,
\* unhinted fill styles
RaceFonts == {"F1", "F2"}
RaceStyles ==
    {x \in Styles : /\ CanCacheOutline(x.render_options)
                    /\ x.render_options.render_mode = <<"Fill">>}

\* a call that has not started: its arguments, and its local variables unset
RaceCall(font, glyph_id, style) ==
    [font |-> font, font_key |-> postscript_name(font),
     glyph_id |-> glyph_id, glyph_offset |-> style.offset,
     font_size |-> style.size, render_options |-> style.render_options,
     pc |-> "contains_key", built |-> None, inserted |-> None, outline |-> None,
     path |-> None, result |-> None]

\* two callers enter push_glyph for the same key and glyph id
StartRace ==
    /\ race = None
    /\ last = Idle
    /\ \E f1 \in RaceFonts, f2 \in RaceFonts, s1 \in RaceStyles, s2 \in RaceStyles :
        \E glyph_id \in GlyphsAsked(f1) \cap GlyphsAsked(f2) :
            /\ postscript_name(f1) = postscript_name(f2)
            /\ race' = Some([font_info |-> font_info,
                             calls |-> <<RaceCall(f1, glyph_id, s1),
                                         RaceCall(f2, glyph_id, s2)>>])
    /\ scene' = <<>>
    /\ UNCHANGED <<font_info, last>>
    /\ UNCHANGED builder_vars
    /\ UNCHANGED demo_vars

\* call p of the race, and the race with call p replaced by c
Racer(p) == Unwrap(race).calls[p]
Moved(p, c) == Some([Unwrap(race) EXCEPT !.calls[p] = c])
At(p, pc) == race # None /\ Racer(p).pc = pc

\* the entry call p works on, as the mapping holds it now, and the render
\* transform the call computes from it
RaceEntry(p) == font_info[Unwrap(Racer(p).font_key)]
RaceRenderTransform(p) ==
    RenderTransform(Racer(p).render_options, RaceEntry(p).metrics,
                    Racer(p).glyph_offset, Racer(p).font_size)

\* "Insert the font into the cache if needed.": the contains_key test
RaceContainsKey(p) ==
    /\ At(p, "contains_key")
    /\ race' = Moved(p, [Racer(p) EXCEPT !.pc =
                   IF Unwrap(Racer(p).font_key) \in DOMAIN font_info
                   THEN "check" ELSE "insert_font"])
    /\ UNCHANGED <<font_info, scene, last>>
    /\ UNCHANGED builder_vars
    /\ UNCHANGED demo_vars

\* self.font_info.insert(font_key.to_owned(), FontInfo::new(...)): an entry
\* another call put there since the test is replaced
RaceInsertFont(p) ==
    /\ At(p, "insert_font")
    /\ font_info' = MapInsert(font_info, Unwrap(Racer(p).font_key),
                              FontInfoNew(Racer(p).font))
    /\ race' = Moved(p, [Racer(p) EXCEPT !.pc = "check"])
    /\ UNCHANGED <<scene, last>>
    /\ UNCHANGED builder_vars
    /\ UNCHANGED demo_vars

\* "See if we have a cached outline.": on a hit the call goes on to
\* transform the clone it took
RaceCheck(p) ==
    /\ At(p, "check")
    /\ LET cached_outline ==
               LookupCachedOutline(RaceEntry(p), Racer(p).glyph_id,
                   CanCacheOutline(Racer(p).render_options))
       IN  race' =
             IF cached_outline # None
             THEN Moved(p, [Racer(p) EXCEPT
                      !.pc = "push",
                      !.outline = Some(HitOutline(Unwrap(cached_outline),
                                           RaceRenderTransform(p),
                                           RaceEntry(p).metrics))])
             ELSE Moved(p, [Racer(p) EXCEPT !.pc = "extract"])
    /\ UNCHANGED <<font_info, scene, last>>
    /\ UNCHANGED builder_vars
    /\ UNCHANGED demo_vars

\* font.outline(...)? and outline_builder.build()
RaceExtract(p) ==
    /\ At(p, "extract")
    /\ LET extracted ==
               FontOutline(Racer(p).font, Racer(p).glyph_id,
                   Racer(p).render_options.hinting_options,
                   NewBuilder(BuilderTransform(
                       CanCacheOutline(Racer(p).render_options),
                       RaceEntry(p).metrics, RaceRenderTransform(p))))
       IN  race' =
             IF extracted.ok
             THEN Moved(p, [Racer(p) EXCEPT
                      !.pc = "insert",
                      !.built = Some(build(extracted.builder))])
             ELSE Moved(p, [Racer(p) EXCEPT !.pc = "done",
                                            !.result = Some("Err")])
    /\ UNCHANGED <<font_info, scene, last>>
    /\ UNCHANGED builder_vars
    /\ UNCHANGED demo_vars

\* if can_cache_outline: insert a clone, transform the local outline
RaceInsert(p) ==
    /\ At(p, "insert")
    /\ LET built_ == Unwrap(Racer(p).built)
           key == Unwrap(Racer(p).font_key)
       IN  IF CanCacheOutline(Racer(p).render_options)
           THEN /\ font_info' =
                      [font_info EXCEPT ![key].outline_cache =
                          MapInsert(@, Racer(p).glyph_id, built_)]
                /\ race' = Moved(p, [Racer(p) EXCEPT
                       !.pc = "push",
                       !.inserted = Some(built_),
                       !.outline = Some(TransformOutline(built_,
                                       FromCacheTransform(
                                           RaceRenderTransform(p),
                                           RaceEntry(p).metrics)))])
           ELSE /\ font_info' = font_info
                /\ race' = Moved(p, [Racer(p) EXCEPT
                       !.pc = "push", !.outline = Some(built_)])
    /\ UNCHANGED <<scene, last>>
    /\ UNCHANGED builder_vars
    /\ UNCHANGED demo_vars

\* the stroke conversion, DrawPath::new and scene.push_draw_path
RacePush(p) ==
    /\ At(p, "push")
    /\ LET path == MakeDrawPath(
                       StrokeIfNeeded(Unwrap(Racer(p).outline),
                                      Racer(p).render_options),
                       Racer(p).render_options)
       IN  /\ scene' = Append(scene, path)
           /\ race' = Moved(p, [Racer(p) EXCEPT !.pc = "done",
                                                !.path = Some(path),
                                                !.result = Some("Ok")])
    /\ UNCHANGED <<font_info, last>>
    /\ UNCHANGED builder_vars
    /\ UNCHANGED demo_vars

\* both calls have returned; the FontContext lives on
EndRace ==
    /\ At(1, "done")
    /\ At(2, "done")
    /\ race' = None
    /\ scene' = <<>>
    /\ UNCHANGED <<font_info, last>>
    /\ UNCHANGED builder_vars
    /\ UNCHANGED demo_vars

NextRace ==
    \/ StartRace
    \/ \E p \in 1..2 : RaceContainsKey(p)
    \/ \E p \in 1..2 : RaceInsertFont(p)
    \/ \E p \in 1..2 : RaceCheck(p)
    \/ \E p \in 1..2 : RaceExtract(p)
    \/ \E p \in 1..2 : RaceInsert(p)
    \/ \E p \in 1..2 : RacePush(p)
    \/ EndRace

SpecRace == Init /\ [][NextRace]_vars

(* ------------- the demo's frame loop (demo/common/src/renderer.rs) ------------- *)
\* the most framebuffers created in one run
MaxCreated == 3

\* the framebuffer set-up of prepare_frame_rendering: in VR mode the scene
\* framebuffer is created when there is none or its texture has not the
\* viewport's size, and is then taken out of the application into the
\* renderer options; in every other mode the options get the default
\* destination.  Gives the new fields and the scene count returned.
SetUpFramebuffers(mode_, scene_framebuffer_, viewport_size_, created_) == IF mode_ = "VR" THEN LET stale == scene_framebuffer_ = None \/ Unwrap(scene_framebuffer_).texture_size # viewport_size_ fb == IF stale THEN create_framebuffer(created_, viewport_size_) ELSE Unwrap(scene_framebuffer_) IN [scene_framebuffer |-> None, dest |-> OtherDest(fb), created |-> IF stale THEN created_ + 1 ELSE created_, scene_count |-> 2] ELSE [scene_framebuffer |-> scene_framebuffer_, dest |-> DefaultDest, created |-> created_, scene_count |-> 1]

\* whether prepare_frame_rendering has to create a framebuffer
CreatesFramebuffer(mode_, scene_framebuffer_, viewport_size_) == mode_ = "VR" /\ (scene_framebuffer_ = None \/ Unwrap(scene_framebuffer_).texture_size # viewport_size_)

\* "Reattach default framebuffer" of draw_scene: in VR mode the options get
\* the default destination, and a framebuffer found in the old destination
\* goes back into the application
ReattachDropped(mode_, scene_framebuffer_, dest_) == IF mode_ = "VR" THEN [scene_framebuffer |-> scene_framebuffer_, dest |-> DefaultDest] ELSE [scene_framebuffer |-> scene_framebuffer_, dest |-> dest_]
Reattach(mode_, scene_framebuffer_, dest_) == IF mode_ = "VR" THEN [scene_framebuffer |-> IF dest_.kind = "Other" THEN Some(dest_.framebuffer) ELSE scene_framebuffer_, dest |-> DefaultDest] ELSE [scene_framebuffer |-> scene_framebuffer_, dest |-> dest_]

\* whether composite_scene goes past its first match: the camera is
\* Camera::ThreeD with more than one eye transform
Composites(camera_) == camera_.kind = "ThreeD" /\ camera_.eye_transforms > 1

\* a panic ends the program
Running == ~frame.unwrapped_none

\* the camera is changed by the user between two calls
SetCamera ==
    /\ Running
    /\ \E camera_ \in Cameras \ {camera} : camera' = camera_
    /\ frame' = [frame EXCEPT !.camera_kept = FALSE]
    /\ UNCHANGED <<viewport_size, scene_framebuffer, dest, created>>
    /\ UNCHANGED text_vars
    /\ UNCHANGED builder_vars
    /\ UNCHANGED race_vars

\* the window is resized between two calls
ResizeWindow ==
    /\ Running
    /\ \E size \in ViewportSizes \ {viewport_size} : viewport_size' = size
    /\ UNCHANGED <<camera, scene_framebuffer, dest, created, frame>>
    /\ UNCHANGED text_vars
    /\ UNCHANGED builder_vars
    /\ UNCHANGED race_vars

\* prepare_frame_rendering(), at the start of a frame
PrepareFrameRendering ==
    /\ Running
    /\ frame.op \in {"new", "begin_compositing", "composite_scene"}
    /\ CreatesFramebuffer(CameraMode(camera), scene_framebuffer, viewport_size) => created < MaxCreated
    /\ LET set_up == SetUpFramebuffers(CameraMode(camera), scene_framebuffer, viewport_size, created)
       IN /\ scene_framebuffer' = set_up.scene_framebuffer
          /\ dest' = set_up.dest
          /\ created' = set_up.created
          /\ frame' = [op |-> "prepare_frame_rendering", scene_count |-> set_up.scene_count, mode |-> CameraMode(camera), camera_kept |-> TRUE, render_scene_index |-> 0, unwrapped_none |-> FALSE]
    /\ UNCHANGED <<camera, viewport_size>>
    /\ UNCHANGED text_vars
    /\ UNCHANGED builder_vars
    /\ UNCHANGED race_vars

\* draw_scene(), after prepare_frame_rendering
DrawScene ==
    /\ Running
    /\ frame.op = "prepare_frame_rendering"
    /\ LET reattached == Reattach(CameraMode(camera), scene_framebuffer, dest)
       IN /\ scene_framebuffer' = reattached.scene_framebuffer
          /\ dest' = reattached.dest
    /\ frame' = [frame EXCEPT !.op = "draw_scene"]
    /\ UNCHANGED <<camera, viewport_size, created>>
    /\ UNCHANGED text_vars
    /\ UNCHANGED builder_vars
    /\ UNCHANGED race_vars

\* begin_compositing(), after draw_scene
BeginCompositing ==
    /\ Running
    /\ frame.op = "draw_scene"
    /\ frame' = [frame EXCEPT !.op = "begin_compositing"]
    /\ UNCHANGED <<camera, viewport_size, scene_framebuffer, dest, created>>
    /\ UNCHANGED text_vars
    /\ UNCHANGED builder_vars
    /\ UNCHANGED race_vars

\* composite_scene(render_scene_index), once for each scene of the count
\* prepare_frame_rendering returned, in order
CompositeScene ==
    /\ Running
    /\ \/ frame.op = "begin_compositing" /\ frame.render_scene_index = 0
       \/ frame.op = "composite_scene" /\ frame.render_scene_index < frame.scene_count
    /\ IF Composites(camera)
       THEN /\ dest' = DefaultDest
            /\ frame' = [frame EXCEPT !.op = "composite_scene", !.render_scene_index = @ + 1, !.unwrapped_none = (scene_framebuffer = None)]
       ELSE /\ dest' = dest
            /\ frame' = [frame EXCEPT !.op = "composite_scene", !.render_scene_index = @ + 1]
    /\ UNCHANGED <<camera, viewport_size, scene_framebuffer, created>>
    /\ UNCHANGED text_vars
    /\ UNCHANGED builder_vars
    /\ UNCHANGED race_vars

NextDemo ==
    \/ SetCamera
    \/ ResizeWindow
    \/ PrepareFrameRendering
    \/ DrawScene
    \/ BeginCompositing
    \/ CompositeScene

SpecDemo == Init /\ [][NextDemo]_vars

(* ------------------------------ properties ------------------------------ *)
IsGlyphCall(l) == l.op = "push_glyph"
IsLayoutCall(l) == l.op = "push_layout"
Unhinted_(l) == l.render_options.hinting_options = "None"

\* the outline cache of key k in mapping fi, empty when fi has no such key
CacheOf(fi, k) == IF k \in DOMAIN fi THEN fi[k].outline_cache ELSE EmptyMap

\* the font-unit outline behind a cached outline: the units-per-em
\* normalization taken off again
FontUnitOutline(info, glyph_id) ==
    TransformOutline(info.outline_cache[glyph_id],
                     FromScale(FDiv(F32(1), F32(info.metrics.units_per_em))))

\* the path a call is to append, given the font-unit outline it draws
PathOf(unit_outline, info, l) ==
    MakeDrawPath(
        StrokeIfNeeded(
            TransformOutline(unit_outline,
                RenderTransform(l.render_options, info.metrics,
                                l.glyph_offset, l.font_size)),
            l.render_options),
        l.render_options)

\* the unhinted keyed calls callers make
CacheableCalls ==
    { [font |-> f, glyph_id |-> g, style |-> s] :
        f \in {x \in Fonts : postscript_name(x) # None},
        g \in GlyphIds, s \in {x \in Styles : CanCacheOutline(x.render_options)} }

GlyphCall(fi, sc, c) ==
    PushGlyph(fi, sc, c.font, postscript_name(c.font), c.glyph_id,
              c.style.offset, c.style.size, c.style.render_options)

\* C1: cache transparency. (a) Whenever the caller is about to call, a keyed
\* unhinted call that succeeds and the same call made again right after it,
\* now a cache hit that extracts nothing, append the same path; and a second
\* call for the same font and glyph with another offset, size and transform
\* appends the one font-unit outline under its own render transform. (b) The
\* path a keyed unhinted call has appended, hit or miss, is the font-unit
\* outline of the cache under the call's render transform.
C1_CacheTransparency ==
    /\ last = Idle =>
          \A c \in CacheableCalls :
            c.glyph_id \in GlyphsAsked(c.font) =>
              LET r1 == GlyphCall(font_info, scene, c)
                  k == Unwrap(postscript_name(c.font))
              IN  r1.result = "Ok" =>
                    \A s \in {x \in Styles : CanCacheOutline(x.render_options)} :
                      LET c2 == [c EXCEPT !.style = s]
                          r2 == GlyphCall(r1.font_info, r1.scene, c2)
                          unit == FontUnitOutline(r1.font_info[k], c.glyph_id)
                          l2 == [render_options |-> s.render_options,
                                 glyph_offset |-> s.offset,
                                 font_size |-> s.size]
                      IN  /\ r2.result = "Ok"
                          /\ r2.outline_calls = <<>>
                          /\ r2.font_info = r1.font_info
                          /\ s = c.style =>
                                r2.scene[Len(r2.scene)] = r1.scene[Len(r1.scene)]
                          /\ r2.scene[Len(r2.scene)]
                                = PathOf(unit, r1.font_info[k], l2)
    /\ (IsGlyphCall(last) /\ last.font_key # None /\ Unhinted_(last)
           /\ last.result = "Ok") =>
          LET info == font_info[Unwrap(last.font_key)]
          IN  scene[Len(scene)]
                = PathOf(FontUnitOutline(info, last.glyph_id), info, last)

\* a cache hit under a transform, an offset and a size other than the default
C1_Witness ==
    /\ IsGlyphCall(last) /\ last.font_key # None /\ last.result = "Ok"
    /\ last.outline_calls = <<>>
    /\ last.render_options = UnhintedTurned

\* C2: every cached outline is the raw outline of that glyph in a font of
\* that key, scaled by the entry's units per em and by nothing else
C2_CacheTransformFree ==
    \A k \in DOMAIN font_info :
      \A g \in DOMAIN font_info[k].outline_cache :
        \E f \in Fonts :
          /\ postscript_name(f) = Some(k)
          /\ font_info[k].outline_cache[g]
               = TransformOutline(RawOutline(f, g, "None"),
                     FromScale(F32(font_info[k].metrics.units_per_em)))

\* a miss under a turned transform, an offset and a size has just cached
C2_Witness ==
    /\ IsGlyphCall(last) /\ last.font_key # None /\ last.result = "Ok"
    /\ last.outline_calls # <<>>
    /\ last.render_options = UnhintedTurned
    /\ last.glyph_id \in DOMAIN font_info[Unwrap(last.font_key)].outline_cache

\* every outline cache of mapping fi2 is as it is in fi (a new entry's is
\* empty)
CachesKept(fi, fi2) ==
    \A k \in DOMAIN fi \cup DOMAIN fi2 : CacheOf(fi2, k) = CacheOf(fi, k)

\* C3: hinting exclusion. A hinted push_glyph extracts the outline from the
\* font, once, whatever the cache holds, and leaves every outline cache,
\* that of the FontInfo it worked on included, as it was; a hinted layout
\* extracts once per glyph it processes.
C3_HintingExclusion ==
    [][/\ (IsGlyphCall(last') /\ ~Unhinted_(last')) =>
            /\ last'.outline_calls
                 = << <<last'.font, last'.glyph_id,
                        last'.render_options.hinting_options>> >>
            /\ CachesKept(font_info, font_info')
            /\ last'.info.outline_cache
                 = (IF last'.font_key = None THEN EmptyMap
                    ELSE CacheOf(font_info, Unwrap(last'.font_key)))
       /\ (IsLayoutCall(last') /\ ~Unhinted_(last')) =>
            /\ Len(last'.outline_calls) = last'.processed
            /\ \A i \in 1..last'.processed :
                 last'.outline_calls[i]
                   = <<last'.layout[i].font, last'.layout[i].glyph_id,
                       last'.render_options.hinting_options>>
            /\ CachesKept(font_info, font_info')]_vars

\* a hinted call for a glyph that an earlier unhinted call has cached
C3_Witness ==
    /\ IsGlyphCall(last) /\ ~Unhinted_(last) /\ last.font_key # None
    /\ last.result = "Ok"
    /\ last.glyph_id \in DOMAIN font_info[Unwrap(last.font_key)].outline_cache
    /\ last.outline_calls # <<>>

\* C4: push_glyph returns an error exactly when it called font.outline and
\* that call failed; it calls font.outline at most once; and a call that
\* fails leaves the glyph out of the outline cache and appends nothing.
C4_ErrorIffExtractionFailed ==
    [][IsGlyphCall(last') =>
        /\ Len(last'.outline_calls) <= 1
        /\ last'.result = "Err"
             <=> /\ last'.outline_calls # <<>>
                 /\ ~GlyphLoads(last'.outline_calls[1][1],
                                last'.outline_calls[1][2])
        /\ last'.result = "Err" =>
             /\ scene' = scene
             /\ last'.glyph_id \notin DOMAIN last'.info.outline_cache
             /\ \A k \in DOMAIN font_info' :
                  last'.glyph_id \in DOMAIN font_info'[k].outline_cache
                    => last'.glyph_id \in DOMAIN CacheOf(font_info, k)
        /\ last'.result = "Ok" => Len(scene') = Len(scene) + 1]_vars

\* an unhinted call for a glyph the font cannot load has returned the error
C4_Witness ==
    /\ IsGlyphCall(last) /\ last.result = "Err" /\ Unhinted_(last)
    /\ last.outline_calls = << <<last.font, last.glyph_id, "None">> >>
    /\ scene = last.scene_before

\* C5 as stated: a failing push_glyph leaves the font mapping, every outline
\* cache and the scene exactly as they were
C5_FailureHasNoSideEffects ==
    [][(IsGlyphCall(last') /\ last'.result = "Err") =>
         /\ font_info' = font_info
         /\ scene' = scene]_vars

\* C5 amended: a failing push_glyph leaves the scene, every entry the
\* mapping had and every outline cache as they were; the one thing it may
\* add is the entry of its own key, when that key is new: the call's font,
\* its metrics, an empty outline cache.
C5_FailureKeepsCachesAndScene ==
    [][(IsGlyphCall(last') /\ last'.result = "Err") =>
         /\ scene' = scene
         /\ \A k \in DOMAIN font_info :
              k \in DOMAIN font_info' /\ font_info'[k] = font_info[k]
         /\ DOMAIN font_info'
              = DOMAIN font_info
                  \cup (IF last'.font_key = None THEN {}
                        ELSE {Unwrap(last'.font_key)})
         /\ \A k \in DOMAIN font_info' \ DOMAIN font_info :
              font_info'[k] = FontInfoNew(last'.font)]_vars

\* a call has failed on a key whose entry holds no outline: the entry is
\* there although no call with that key has succeeded
C5_Witness ==
    /\ IsGlyphCall(last) /\ last.result = "Err" /\ last.font_key # None
    /\ Unwrap(last.font_key) \in DOMAIN font_info
    /\ font_info[Unwrap(last.font_key)] = FontInfoNew(last.font)

\* the index of the first glyph of a layout that its font cannot load, or
\* 0 when every glyph loads
FirstFailing(layout) ==
    IF \A i \in 1..Len(layout) :
           GlyphLoads(layout[i].font, layout[i].glyph_id)
    THEN 0
    ELSE CHOOSE i \in 1..Len(layout) :
           /\ ~GlyphLoads(layout[i].font, layout[i].glyph_id)
           /\ \A j \in 1..(i - 1) :
                GlyphLoads(layout[j].font, layout[j].glyph_id)

\* the path of glyph i of the layout of call l, read off the mapping fi the
\* call left: the cached font-unit outline for a keyed unhinted glyph, the
\* font's own outline otherwise
LayoutPath(fi, l, i) ==
    LET g == l.layout[i]
        key == postscript_name(g.font)
        info == IF key # None THEN fi[Unwrap(key)] ELSE FontInfoNew(g.font)
        unit == IF key # None /\ Unhinted_(l)
                THEN FontUnitOutline(info, g.glyph_id)
                ELSE RawOutline(g.font, g.glyph_id,
                                l.render_options.hinting_options)
    IN  PathOf(unit, info, [render_options |-> l.render_options,
                            glyph_offset |-> g.offset,
                            font_size |-> l.font_size])

\* C6: push_layout works through the glyphs in order and stops at the first
\* one that fails. With k the first failing glyph, it returns the error, has
\* made k push_glyph calls, and the scene is what it was followed by the
\* paths of the k - 1 glyphs before it, in order; with no failing glyph it
\* returns Ok and the scene has gained one path per glyph, in order.
C6_LayoutStopsAtFirstError ==
    IsLayoutCall(last) =>
      LET k == FirstFailing(last.layout)
          n == IF k = 0 THEN Len(last.layout) ELSE k - 1
          before == last.scene_before
      IN  /\ last.result = (IF k = 0 THEN "Ok" ELSE "Err")
          /\ last.processed = (IF k = 0 THEN Len(last.layout) ELSE k)
          /\ Len(scene) = Len(before) + n
          /\ SubSeq(scene, 1, Len(before)) = before
          /\ \A i \in 1..n :
               scene[Len(before) + i] = LayoutPath(font_info, last, i)
          /\ \A c \in 1..Len(last.outline_calls) :
               \E i \in 1..last.processed :
                 /\ last.outline_calls[c][1] = last.layout[i].font
                 /\ last.outline_calls[c][2] = last.layout[i].glyph_id

\* a layout of three glyphs has failed at its second glyph, after one path
\* was appended to a scene that held a path already
C6_Witness ==
    /\ IsLayoutCall(last) /\ last.result = "Err"
    /\ Len(last.layout) = 3 /\ last.processed = 2
    /\ last.scene_before # <<>>
    /\ Len(scene) = Len(last.scene_before) + 1

\* C7: key omission. A push_glyph without a key leaves the font mapping as
\* it was and calls font.outline, every time.
C7_KeyOmission ==
    [][(IsGlyphCall(last') /\ last'.font_key = None) =>
         /\ font_info' = font_info
         /\ last'.outline_calls
              = << <<last'.font, last'.glyph_id,
                     last'.render_options.hinting_options>> >>]_vars

\* an unhinted call without a key has succeeded while the mapping holds
\* entries of other fonts
C7_Witness ==
    /\ IsGlyphCall(last) /\ last.font_key = None /\ last.result = "Ok"
    /\ Unhinted_(last)
    /\ DOMAIN font_info = {"A", "B"}

\* C8 as stated: a push_glyph without a key inserts into no outline cache,
\* not even into that of the FontInfo it owns
C8_KeylessNeverInserts ==
    (IsGlyphCall(last) /\ last.font_key = None) =>
        last.info.outline_cache = EmptyMap

\* C9: the entries of the font mapping are permanent. An entry keeps its
\* key, its font and its metrics over every step; a push_glyph with a key
\* leaves an entry under that key, and the entry of a new key holds the
\* call's font, that font's metrics and only what this call cached.
C9_FontEntryLifecycle ==
    [][/\ \A k \in DOMAIN font_info :
            /\ k \in DOMAIN font_info'
            /\ font_info'[k].font = font_info[k].font
            /\ font_info'[k].metrics = font_info[k].metrics
       /\ (IsGlyphCall(last') /\ last'.font_key # None) =>
            LET k == Unwrap(last'.font_key)
            IN  /\ k \in DOMAIN font_info'
                /\ DOMAIN font_info' = DOMAIN font_info \cup {k}
                /\ k \notin DOMAIN font_info =>
                     /\ font_info'[k].font = last'.font
                     /\ font_info'[k].metrics = FontMetrics(last'.font)
                     /\ DOMAIN font_info'[k].outline_cache
                          \subseteq {last'.glyph_id}]_vars

\* a call has passed font F2 under the key whose entry was created for F1:
\* the entry still holds F1 and F1's metrics
C9_Witness ==
    /\ IsGlyphCall(last) /\ last.font = "F2" /\ last.result = "Ok"
    /\ "A" \in DOMAIN font_info
    /\ font_info["A"].font = "F1"
    /\ font_info["A"].metrics = FontMetrics("F1")

\* C10: outline cache entries are permanent. A cached outline stays, the
\* same, over every step; an unhinted push_glyph with a key that succeeds
\* leaves its glyph cached; and an unhinted push_glyph with a key whose
\* glyph is cached does not call font.outline.
C10_OutlineCachePermanent ==
    [][/\ \A k \in DOMAIN font_info :
            \A g \in DOMAIN font_info[k].outline_cache :
              /\ g \in DOMAIN CacheOf(font_info', k)
              /\ font_info'[k].outline_cache[g] = font_info[k].outline_cache[g]
       /\ (IsGlyphCall(last') /\ last'.font_key # None /\ Unhinted_(last')) =>
            LET k == Unwrap(last'.font_key)
            IN  /\ last'.result = "Ok"
                     => last'.glyph_id \in DOMAIN font_info'[k].outline_cache
                /\ last'.glyph_id \in DOMAIN CacheOf(font_info, k)
                     => last'.outline_calls = <<>>]_vars

\* a second glyph of a key is cached by a miss while the first stays cached
C10_Witness ==
    /\ IsGlyphCall(last) /\ last.font_key = Some("A") /\ Unhinted_(last)
    /\ last.glyph_id = 2 /\ last.outline_calls # <<>>
    /\ DOMAIN font_info["A"].outline_cache = {1, 2}

(* ----------------------- properties of the builder ---------------------- *)
\* the sink events of the log, the construction left out
SinkLog == IF events = <<>> THEN <<>> ELSE Tail(events)

\* the transform the builder was constructed with
ConstructedWith == events[1].transform

Ops(log) == [i \in 1..Len(log) |-> log[i].op]

\* the segments of a contour: its first point is where it starts, every
\* later endpoint ends one line, quadratic or cubic segment
Segments(c) ==
    Cardinality({i \in 2..Len(c.points) : c.points[i].flag = "endpoint"})

\* C11: contour discarding. The outline build() returns holds only contours
\* with at least one segment; move_to followed by build() gives an outline
\* without contours; move_to, line_to, build() gives one contour of one
\* segment.
C11_SegmentlessContoursDiscarded ==
    built # None =>
        LET outline == Unwrap(built)
        IN  /\ \A i \in 1..Len(outline) : Segments(outline[i]) >= 1
            /\ Ops(SinkLog) = <<"move_to">> => Len(outline) = 0
            /\ Ops(SinkLog) = <<"move_to", "line_to">> =>
                    Len(outline) = 1 /\ Segments(outline[1]) = 1

\* the coordinates an event carries, in argument order
Coordinates(e) ==
    CASE e.op = "move_to" -> <<e.to>>
      [] e.op = "line_to" -> <<e.to>>
      [] e.op = "quadratic_curve_to" -> <<e.ctrl, e.to>>
      [] e.op = "cubic_curve_to" -> <<e.ctrl0, e.ctrl1, e.to>>
      [] e.op = "close" -> <<>>

RECURSIVE CoordinatesOf(_)
\* every coordinate the events of a log carry, in order of arrival
CoordinatesOf(log) ==
    IF log = <<>> THEN <<>>
    ELSE Coordinates(Head(log)) \o CoordinatesOf(Tail(log))

RECURSIVE StoredIn(_)
\* every coordinate the contours of a sequence hold, in order
StoredIn(contours) ==
    IF contours = <<>> THEN <<>>
    ELSE [i \in 1..Len(Head(contours).points) |-> Head(contours).points[i].p]
         \o StoredIn(Tail(contours))

\* C12: the builder's transform is the one it was constructed with, whatever
\* events it received; and the coordinates held by its completed contours and
\* its current contour (or by the outline built) are, one for one and in
\* order, the coordinates of the events received, start points, control
\* points and end points alike, each taken through that transform once.
C12_EveryCoordinateTransformedOnce ==
    LET expected == [i \in 1..Len(CoordinatesOf(SinkLog)) |->
                        Apply(ConstructedWith, CoordinatesOf(SinkLog)[i])]
    IN  /\ builder # None =>
            /\ Unwrap(builder).transform = ConstructedWith
            /\ StoredIn(Append(Unwrap(builder).outline,
                                Unwrap(builder).current_contour)) = expected
        /\ built # None => StoredIn(Unwrap(built)) = expected

\* a builder constructed with the quarter turn has received one event of
\* each kind that carries coordinates
C12_Witness ==
    /\ builder # None
    /\ ConstructedWith = Turned
    /\ {SinkLog[i].op : i \in 1..Len(SinkLog)} =
           {"move_to", "line_to", "quadratic_curve_to", "cubic_curve_to"}

(* ------------------- properties of push_layout's memo ------------------- *)
RECURSIVE MemoArguments(_, _, _)
\* the font and key push_layout hands to push_glyph for glyph i and each
\* later glyph, were every glyph of the layout reached
MemoArguments(layout, i, cached_font_key) ==
    IF i > Len(layout) THEN <<>>
    ELSE LET memo == NextCachedFontKey(cached_font_key, layout[i])
         IN  <<[font |-> Unwrap(memo).font, key |-> Unwrap(memo).key]>>
             \o MemoArguments(layout, i + 1, memo)

RECURSIVE RecomputingLoop(_, _, _, _, _, _)
\* push_layout without the memo: the key of every glyph's font is asked of
\* the font again
RecomputingLoop(fi, sc, layout, i, size, render_options) ==
    IF i > Len(layout)
    THEN [font_info |-> fi, scene |-> sc, result |-> "Ok"]
    ELSE LET r == PushGlyph(fi, sc, layout[i].font,
                            postscript_name(layout[i].font),
                            layout[i].glyph_id, layout[i].offset, size,
                            render_options)
         IN  IF r.result = "Err"
             THEN [font_info |-> r.font_info, scene |-> r.scene,
                   result |-> "Err"]
             ELSE RecomputingLoop(r.font_info, r.scene, layout, i + 1, size,
                                  render_options)

\* C13: memo transparency. Whenever the caller is about to call, for every
\* layout and style it may pass: push_layout hands push_glyph, glyph by
\* glyph, the glyph's own font and that font's key, and the mapping, the
\* scene and the Result it leaves are those of the loop that recomputes the
\* key for every glyph.
C13_MemoTransparent ==
    last = Idle =>
        \A layout \in Layouts :
            /\ MemoArguments(layout, 1, None) =
                   [i \in 1..Len(layout) |->
                       [font |-> layout[i].font,
                        key |-> postscript_name(layout[i].font)]]
            /\ \A style \in LayoutStyles :
                   LET r == PushLayout(font_info, scene, layout, style.size,
                                       style.render_options)
                       n == RecomputingLoop(font_info, scene, layout, 1,
                                            style.size, style.render_options)
                   IN  /\ r.font_info = n.font_info
                       /\ r.scene = n.scene
                       /\ r.result = n.result

\* a layout has been pushed in full in which a font comes back after a font
\* without a key, and one in which two fonts of the same key follow each
\* other
C13_Witness ==
    /\ IsLayoutCall(last)
    /\ last.result = "Ok"
    /\ Len(last.layout) = 3
    /\ last.layout[1].font = "F1"
    /\ last.layout[2].font = "F4"
    /\ last.layout[3].font = "F1"
    /\ "A" \in DOMAIN font_info
    /\ font_info["A"].font = "F2"

(* --------------------- properties of the render transform --------------- *)
\* the font-unit outline a successful call drew: the cached outline with the
\* units-per-em normalization taken off, or for a hinted call the font's
\* hinted outline
DrawnUnitOutline(l) ==
    IF Unhinted_(l)
    THEN FontUnitOutline(l.info, l.glyph_id)
    ELSE RawOutline(l.font, l.glyph_id, l.render_options.hinting_options)

\* where a font-unit point p of a glyph lands: the offset is added, the sum
\* is scaled by font size / units per em with the Y factor negated, and the
\* caller's transform is applied to that
Placed(p, l) ==
    LET font_scale == FDiv(l.font_size, F32(l.info.metrics.units_per_em))
        moved == <<p[1] + l.glyph_offset[1], p[2] + l.glyph_offset[2]>>
        scaled == <<(font_scale * moved[1]) \div Unit,
                    (FNeg(font_scale) * moved[2]) \div Unit>>
    IN  Apply(l.render_options.transform, scaled)

PlacedOutline(o, l) ==
    [i \in 1..Len(o) |->
        [o[i] EXCEPT !.points =
            [j \in 1..Len(o[i].points) |->
                [p |-> Placed(o[i].points[j].p, l),
                 flag |-> o[i].points[j].flag]]]]

C15_OnePathAppended ==
    (IsGlyphCall(last) /\ last.result = "Ok") =>
        /\ Len(scene) = Len(last.scene_before) + 1
        /\ SubSeq(scene, 1, Len(last.scene_before)) = last.scene_before
        /\ scene[Len(scene)].paint = last.render_options.paint_id
        /\ scene[Len(scene)].clip_path = last.render_options.clip_path
        /\ scene[Len(scene)].blend_mode = last.render_options.blend_mode

\* a glyph was pushed with a clip path, a paint and a blend mode of its own
\* into a scene that held a path already
C15_Witness ==
    /\ IsGlyphCall(last)
    /\ last.result = "Ok"
    /\ Len(last.scene_before) = 1
    /\ last.render_options.clip_path = Some(1)
    /\ last.render_options.blend_mode = "Multiply"
    /\ last.render_options.paint_id = 1

(* ---------------------- properties of the render mode ------------------- *)
\* the filled outline of a successful call in device space
FilledOutline(l) ==
    TransformOutline(DrawnUnitOutline(l),
                     RenderTransform(l.render_options, l.info.metrics,
                                     l.glyph_offset, l.font_size))

\* the call c with the render mode replaced
WithMode(c, mode) ==
    [c EXCEPT !.style.render_options.render_mode = mode]

\* C16: (a) the outline a successful push_glyph appended is, for
\* Stroke(style), the stroke conversion with that style of the glyph's
\* filled outline in device space, and for Fill that filled outline itself.
\* (b) Whenever the caller is about to call, a keyed unhinted call leaves the
\* same mapping, outline caches included, whether it strokes or fills; and
\* when the stroking call succeeds, the filling call made right after it for
\* the same glyph extracts nothing and appends the filled outline, the one
\* the filling call alone appends.
C16_StrokeAfterTransformNotCached ==
    /\ (IsGlyphCall(last) /\ last.result = "Ok") =>
           scene[Len(scene)].outline =
               IF last.render_options.render_mode[1] = "Stroke"
               THEN StrokeToFill(FilledOutline(last),
                                 last.render_options.render_mode[2])
               ELSE FilledOutline(last)
    /\ last = Idle =>
           \A c \in CacheableCalls :
               LET stroke == GlyphCall(font_info, scene,
                                       WithMode(c, <<"Stroke", "S1">>))
                   fill == GlyphCall(font_info, scene, WithMode(c, <<"Fill">>))
                   after == GlyphCall(stroke.font_info, stroke.scene,
                                      WithMode(c, <<"Fill">>))
               IN  /\ stroke.font_info = fill.font_info
                   /\ stroke.result = fill.result
                   /\ stroke.result = "Ok" =>
                          /\ after.result = "Ok"
                          /\ after.outline_calls = <<>>
                          /\ after.scene[Len(after.scene)] =
                                 fill.scene[Len(fill.scene)]
                          /\ after.font_info = stroke.font_info

\* a stroking call extracted the glyph and filled the outline cache
C16_Witness ==
    /\ IsGlyphCall(last)
    /\ last.result = "Ok"
    /\ last.render_options.render_mode = <<"Stroke", "S1">>
    /\ last.outline_calls # <<>>
    /\ last.font_key # None
    /\ last.glyph_id \in DOMAIN font_info[Unwrap(last.font_key)].outline_cache

(* --------------------------- properties of close ------------------------ *)
\* the step delivers one event to the builder
Delivers == builder # None /\ builder' # None /\ events' # events

\* the coordinates of the points a contour holds
PointsOf(c) == [i \in 1..Len(c.points) |-> c.points[i].p]

\* C17: a close() leaves the completed contours, the points of the current
\* contour and the transform as they were and leaves the current contour
\* marked closed; a line_to, quadratic_curve_to or cubic_curve_to that
\* arrives while the current contour is marked closed completes no contour
\* and adds its points to that contour, which stays marked closed.
C17_CloseOnlyMarks ==
    [][Delivers =>
        LET e == events'[Len(events')]
            b == Unwrap(builder)
            after == Unwrap(builder')
        IN  /\ e.op = "close" =>
                /\ after.outline = b.outline
                /\ after.current_contour.points = b.current_contour.points
                /\ after.transform = b.transform
                /\ after.current_contour.closed
            /\ ( /\ e.op \in {"line_to", "quadratic_curve_to",
                               "cubic_curve_to"}
                 /\ b.current_contour.closed ) =>
                /\ after.outline = b.outline
                /\ after.current_contour.closed
                /\ PointsOf(after.current_contour) =
                       PointsOf(b.current_contour) \o
                       [i \in 1..Len(Coordinates(e)) |->
                           Apply(b.transform, Coordinates(e)[i])]
    ]_vars

\* a contour was started, closed and then given a line
C17_Witness ==
    /\ builder # None
    /\ Ops(SinkLog) = <<"move_to", "close", "line_to">>
    /\ Unwrap(builder).outline = <<>>
    /\ Unwrap(builder).current_contour.closed
    /\ Len(Unwrap(builder).current_contour.points) = 2

(* ------------------- properties of whole event sequences ---------------- *)
RECURSIVE Runs(_, _)
\* the log cut into runs: a move_to begins a run, every other event joins
\* the run in progress; runs is never empty, the events before the first
\* move_to form its first run
Runs(log, runs) ==
    IF log = <<>> THEN runs
    ELSE IF Head(log).op = "move_to"
    THEN Runs(Tail(log), Append(runs, <<Head(log)>>))
    ELSE Runs(Tail(log),
              [runs EXCEPT ![Len(runs)] = Append(@, Head(log))])

\* the runs that carry a coordinate, in order
PointedRuns(log) ==
    SelectSeq(Runs(log, << <<>> >>), LAMBDA run : CoordinatesOf(run) # <<>>)

\* C18: for every sequence of events, whether or not it begins with a
\* move_to, build() returns one contour per run of events that carries a
\* coordinate (a run begins at a move_to; the events before the first
\* move_to are a run of their own), in the order the runs began, the contour
\* still pending at build() included; each contour holds the transformed
\* coordinates of the events of its run, in event order, so every event's
\* coordinates are in exactly one contour.
C18_BuilderLossless ==
    built # None =>
        LET runs == PointedRuns(SinkLog)
            outline == Unwrap(built)
        IN  /\ Len(outline) = Len(runs)
            /\ \A i \in 1..Len(runs) :
                   PointsOf(outline[i]) =
                       [j \in 1..Len(CoordinatesOf(runs[i])) |->
                           Apply(ConstructedWith, CoordinatesOf(runs[i])[j])]

\* an outline was built from events that began with segment events, without
\* a move_to, and then started a second contour that was still pending
C18_Witness ==
    /\ built # None
    /\ Len(SinkLog) = 4
    /\ SinkLog[1].op = "close"
    /\ SinkLog[2].op = "line_to"
    /\ SinkLog[3].op = "move_to"
    /\ SinkLog[4].op = "cubic_curve_to"
    /\ Len(Unwrap(built)) = 2

(* -------------------------- properties of a race ------------------------ *)
\* both calls of the race have returned
RaceOver == race # None /\ Racer(1).pc = "done" /\ Racer(2).pc = "done"

\* push_glyph run as a whole for call c of a race
WholeCall(fi, sc, c) ==
    PushGlyph(fi, sc, c.font, c.font_key, c.glyph_id, c.glyph_offset,
              c.font_size, c.render_options)

\* the path a call of the race appended, as a scene of its own
Appended(c) == IF c.path # None THEN <<Unwrap(c.path)>> ELSE <<>>

\* the race left what the calls leave when a runs to its end before b
\* starts: the mapping, and per call its Result and the path it appended
AsInOrder(a, b) ==
    LET first == WholeCall(Unwrap(race).font_info, <<>>, a)
        second == WholeCall(first.font_info, first.scene, b)
    IN  /\ font_info = second.font_info
        /\ a.result = Some(first.result)
        /\ b.result = Some(second.result)
        /\ Appended(a) \o Appended(b) = second.scene

\* the two calls inserted nothing that differs
InsertedAlike ==
    (Racer(1).inserted # None /\ Racer(2).inserted # None) =>
        Racer(1).inserted = Racer(2).inserted

\* C19 as stated: two calls for the same font key and glyph id that
\* interleaved their check, extraction and insert steps inserted equal
\* outlines, left the outline cache of a sequential run and appended the
\* geometry of that run.
C19_RaceBenignForSameKey ==
    RaceOver =>
        /\ InsertedAlike
        /\ \/ AsInOrder(Racer(1), Racer(2))
           \/ AsInOrder(Racer(2), Racer(1))

\* C19, amended: when the two calls also pass the same font, they inserted
\* equal outlines, and the race left the mapping, the Results and the
\* appended paths of either sequential run.
C19_RaceBenignForSameFont ==
    (RaceOver /\ Racer(1).font = Racer(2).font) =>
        /\ InsertedAlike
        /\ AsInOrder(Racer(1), Racer(2))
        /\ AsInOrder(Racer(2), Racer(1))

\* both calls of one font missed, extracted and inserted, each under its own
\* offset, size and transform
C19_Witness ==
    /\ RaceOver
    /\ Racer(1).font = Racer(2).font
    /\ Racer(1).inserted # None
    /\ Racer(2).inserted # None
    /\ Racer(1).render_options # Racer(2).render_options

(* ------------------- properties of the keying by name ------------------- *)
\* the call c as the record of a call made
AsCall(c) ==
    [render_options |-> c.style.render_options,
     glyph_offset |-> c.style.offset, font_size |-> c.style.size]

\* C20: the cache is found by the font key alone. Whenever the caller is
\* about to call: let a keyed unhinted call succeed and let any keyed
\* unhinted call for the same key and glyph id, of whatever font, follow it.
\* The second call succeeds without extracting anything from its font and
\* leaves the mapping as it found it; the entry's font and units per em are
\* those of the entry as it was before the two calls or, if there was none,
\* of the first call's font; the cached font-unit outline is the one cached
\* before the two calls or, if there was none, the outline of the first
\* call's font; and the second call appends that outline, placed with the
\* entry's units per em.
C20_KeyedByNameOnly ==
    last = Idle =>
        \A c1 \in CacheableCalls, c2 \in CacheableCalls :
            ( /\ postscript_name(c1.font) = postscript_name(c2.font)
              /\ c1.glyph_id = c2.glyph_id ) =>
                LET key == Unwrap(postscript_name(c1.font))
                    glyph_id == c1.glyph_id
                    r1 == GlyphCall(font_info, scene, c1)
                    r2 == GlyphCall(r1.font_info, r1.scene, c2)
                    entry == r1.font_info[key]
                IN  r1.result = "Ok" =>
                        /\ r2.result = "Ok"
                        /\ r2.outline_calls = <<>>
                        /\ r2.font_info = r1.font_info
                        /\ entry.font = IF key \in DOMAIN font_info
                                        THEN font_info[key].font
                                        ELSE c1.font
                        /\ entry.metrics = IF key \in DOMAIN font_info
                                           THEN font_info[key].metrics
                                           ELSE FontMetrics(c1.font)
                        /\ FontUnitOutline(entry, glyph_id) =
                               IF glyph_id \in DOMAIN CacheOf(font_info, key)
                               THEN FontUnitOutline(font_info[key], glyph_id)
                               ELSE RawOutline(c1.font, glyph_id, "None")
                        /\ r2.scene[Len(r2.scene)] =
                               PathOf(FontUnitOutline(entry, glyph_id), entry,
                                      AsCall(c2))

\* a call passing F2 hit the outline that was extracted from F1 under the
\* key the two fonts share, in the entry made for F1
C20_Witness ==
    /\ IsGlyphCall(last)
    /\ last.result = "Ok"
    /\ last.font = "F2"
    /\ last.outline_calls = <<>>
    /\ Unhinted_(last)
    /\ font_info["A"].font = "F1"
    /\ font_info["A"].metrics.units_per_em # FontMetrics("F2").units_per_em
    /\ FontUnitOutline(font_info["A"], last.glyph_id) =
           RawOutline("F1", last.glyph_id, "None")

(* --------------------- properties of get_cached_font -------------------- *)
IsLookup(l) == l.op = "get_cached_font"

\* the font and key push_layout handed to push_glyph for each glyph it
\* reached
Carried(l) ==
    IF IsGlyphCall(l) THEN <<[font |-> l.font, key |-> l.font_key]>>
    ELSE IF IsLayoutCall(l)
    THEN [i \in 1..l.processed |->
             [font |-> l.layout[i].font,
              key |-> postscript_name(l.layout[i].font)]]
    ELSE <<>>

\* the font of the first push_glyph of a step that carried the key name, if
\* any did
FirstCarrying(l, name) ==
    LET with == {i \in 1..Len(Carried(l)) : Carried(l)[i].key = Some(name)}
    IN  IF with = {} THEN None
        ELSE Some(Carried(l)[CHOOSE i \in with : \A j \in with : i <= j].font)

\* C21: a new FontContext knows no name. From then on, for every name: once
\* get_cached_font finds a font for it, it finds that font ever after; while
\* it finds none, it finds one after a step exactly if a push_glyph of that
\* step carried the name as its key, hinted or not, failed or not, and then
\* it is the font of the first push_glyph that did. A get_cached_font call
\* returns what the mapping holds and leaves the mapping and the scene as
\* they were.
C21_CachedFontIffKeyCarried ==
    /\ \A name \in NamesAsked : get_cached_font(font_info, name) = None
    /\ [][ /\ \A name \in NamesAsked :
                get_cached_font(font_info', name) =
                    IF get_cached_font(font_info, name) # None
                    THEN get_cached_font(font_info, name)
                    ELSE FirstCarrying(last', name)
           /\ IsLookup(last') =>
                /\ font_info' = font_info
                /\ scene' = scene
                /\ last'.result =
                       get_cached_font(font_info, last'.postscript_name)
       ]_vars

\* a lookup found the font of a name whose entry holds no outline: only
\* failed or hinted calls carried the name; and the font found is not the
\* only font of that name
C21_Witness ==
    /\ IsLookup(last)
    /\ last.postscript_name = "A"
    /\ last.result = Some("F2")
    /\ font_info["A"].outline_cache = EmptyMap

(* ---------------- the demo's VR framebuffer hand-off ---------------- *)
\* the frame was prepared in VR mode and the camera was left alone since
StaysVR(f) == f.mode = "VR" /\ f.camera_kept

\* the steps of the frame loop, told by the method called last
PrepareStep == frame'.op = "prepare_frame_rendering" /\ frame.op # "prepare_frame_rendering"
DrawStep == frame'.op = "draw_scene" /\ frame.op = "prepare_frame_rendering"
CompositeStep == frame'.op = "composite_scene" /\ frame'.render_scene_index # frame.render_scene_index

\* the application held a framebuffer whose texture has the viewport's size
Reusable == scene_framebuffer # None /\ Unwrap(scene_framebuffer).texture_size = viewport_size

\* C22: in VR mode prepare_frame_rendering leaves scene_framebuffer None
\* and dest Other, holding the application's framebuffer when it had one
\* of the viewport's size, and returns 2; in every other mode it returns 1
\* and leaves dest Default.  While the camera stays in VR mode the
\* following draw_scene puts the framebuffer of dest back into
\* scene_framebuffer and makes dest Default; from prepare_frame_rendering
\* on exactly one of the two places holds a framebuffer, after draw_scene
\* it is scene_framebuffer, and composite_scene never unwraps None.
C22_FramebufferHandOff ==
    [][ /\ PrepareStep =>
             IF CameraMode(camera) = "VR"
             THEN /\ scene_framebuffer' = None
                  /\ dest'.kind = "Other"
                  /\ Reusable => dest'.framebuffer = Unwrap(scene_framebuffer)
                  /\ dest'.framebuffer.texture_size = viewport_size
                  /\ frame'.scene_count = 2
             ELSE /\ dest' = DefaultDest
                  /\ frame'.scene_count = 1
        /\ (DrawStep /\ StaysVR(frame)) =>
             /\ dest.kind = "Other"
             /\ scene_framebuffer' = Some(dest.framebuffer)
             /\ dest' = DefaultDest
        /\ StaysVR(frame') =>
             /\ (scene_framebuffer' # None) # (dest'.kind = "Other")
             /\ frame'.op # "prepare_frame_rendering" => scene_framebuffer' # None
        /\ (CompositeStep /\ StaysVR(frame)) => ~frame'.unwrapped_none
      ]_vars

\* a VR frame composited for both eyes from the one framebuffer created so
\* far, which is back in the application
C22_Witness ==
    /\ frame.op = "composite_scene"
    /\ StaysVR(frame)
    /\ frame.render_scene_index = frame.scene_count
    /\ frame.scene_count = 2
    /\ created = 1
    /\ scene_framebuffer = Some(create_framebuffer(0, viewport_size))
    /\ dest = DefaultDest
====
